---- MODULE Spec2Model ----
(***************************************************************************)
(* The HR analytics program: the data preparation pipeline                 *)
(* (data_preparation.py, HRDataModel), the metrics engine                  *)
(* (dax_measures.py, DAXMeasures) and the dashboard's load handler         *)
(* (app.py, main).                                                         *)
(*                                                                         *)
(* A table (a pandas DataFrame) is a record [cols, rows]: the set of its   *)
(* column names and the sequence of its rows, each row a function from the *)
(* column names to the cell values.  Numeric cells are integers (the cells *)
(* of the modelled CSV files all parse, so pd.to_numeric leaves them as    *)
(* they are).  Dates are day numbers relative to 2024-01-01.  Percentages  *)
(* rounded to two decimals are integers in hundredths.                     *)
(***************************************************************************)
EXTENDS Integers, Sequences, FiniteSets, TLC

VARIABLES
  files,      \* the CSV files on disk: data_path -> table, or None when absent
  salt,       \* the seed of the process's string hash
  cache,      \* st.cache_data of load_data_model: data_path -> data dict, or None
  session,    \* st.session_state: data_model (shared with measures), data_loaded
  hr,         \* the HRDataModel object of the load attempt in progress (or the last)
  pc,         \* where the load attempt in progress stands ("idle" when none)
  ran,        \* the stages the current (or last) load attempt ran, in order
  loads,      \* the number of load attempts so far
  outcome,    \* how the last load attempt ended: "none", "ok", "cached", "error"
  prepared,   \* the data dict as prepare_complete_model returned it (history)
  result,     \* the call in progress and what it returns, None between calls
  input       \* the arguments of a function studied on its own, else None

vars == <<files, salt, cache, session, hr, pc, ran, loads, outcome, prepared, result, input>>

None == [none |-> TRUE]

(***************************************************************************)
(* Bounds of the model.                                                    *)
(***************************************************************************)
MaxEmp == 4        \* rows of a freely enumerated input file
MaxSessionEmp == 3 \* rows of an enumerated input file of a dashboard session
MaxDeparted == 3   \* departed employees of a scenario file
MaxActive == 7     \* active employees of a scenario file
MaxLoads == 2      \* load attempts in one session
MaxSalt == 1       \* hash seeds 0..MaxSalt
MaxTopN == 2       \* top_n arguments 0..MaxTopN
MaxAge == 101      \* ages 0..MaxAge given to the age-band assignment

(***************************************************************************)
(* Sequences and tables.                                                   *)
(***************************************************************************)
Range(s) == {s[i] : i \in 1..Len(s)}

Max(a, b) == IF a >= b THEN a ELSE b

Abs(a) == IF a >= 0 THEN a ELSE -a

RECURSIVE SumOver(_, _)
SumOver(f, n) == IF n = 0 THEN 0 ELSE f[n] + SumOver(f, n - 1)

RECURSIVE Unique(_)
\* Series.unique(): the distinct values in the order they are first met.
Unique(s) ==
  IF s = <<>> THEN <<>>
  ELSE LET init == Unique(SubSeq(s, 1, Len(s) - 1))
           last == s[Len(s)]
       IN IF last \in Range(init) THEN init ELSE Append(init, last)

RECURSIVE Insert(_, _)
Insert(s, x) ==
  IF s = <<>> THEN <<x>>
  ELSE IF x >= s[Len(s)] THEN Append(s, x)
  ELSE Append(Insert(SubSeq(s, 1, Len(s) - 1), x), s[Len(s)])

RECURSIVE Sorted(_)
Sorted(s) == IF s = <<>> THEN <<>> ELSE Insert(Sorted(SubSeq(s, 1, Len(s) - 1)), s[Len(s)])

Table(cols, rows) == [cols |-> cols, rows |-> rows]

Column(df, c) == [i \in 1..Len(df.rows) |-> df.rows[i][c]]

NUnique(df, c) == Cardinality(Range(Column(df, c)))

Project(df, cs) ==
  Table(cs, [i \in 1..Len(df.rows) |-> [c \in cs |-> df.rows[i][c]]])

DropColumns(df, cs) == Project(df, df.cols \ cs)

\* df[name] = values: the column is added, or overwritten when it exists.
WithColumn(df, name, values) ==
  Table(df.cols \cup {name},
        [i \in 1..Len(df.rows) |->
           [c \in df.cols \cup {name} |-> IF c = name THEN values[i] ELSE df.rows[i][c]]])

(***************************************************************************)
(* The input files.  An employee row has the columns the program reads;    *)
(* department and attrition flag are enumerated freely, the other cells    *)
(* are fixed per row position so that the first two rows agree on none of  *)
(* them.                                                                   *)
(***************************************************************************)
Departments == <<"Sales", "Research & Development">>
GenderCells == <<"Male", "Female", "Female", "Male", "Female">>
JobRoles == <<"Sales Executive", "Research Scientist">>
AgeCells == <<25, 26, 55, 56, 35>>
IncomeCells == <<2, 5, 3, 9>>
JobSatisfactionCells == <<1, 3, 4, 2>>
EnvironmentSatisfactionCells == <<3, 2, 4, 1>>
WorkLifeBalanceCells == <<3, 1, 4, 2>>
OverTimeCells == <<"Yes", "No", "No", "Yes">>
PromotionCells == <<0, 7, 1, 6>>

Cyc(cells, i) == cells[((i - 1) % Len(cells)) + 1]

Kinds == [Department : Range(Departments), Attrition : {"Yes", "No"}]

SampleEmployee(i, k) ==
  [EmployeeNumber |-> i,
   Department |-> k.Department,
   JobRole |-> Cyc(JobRoles, i),
   Gender |-> Cyc(GenderCells, i),
   Age |-> Cyc(AgeCells, i),
   Attrition |-> k.Attrition,
   YearsAtCompany |-> (i - 1) % 4,
   MonthlyIncome |-> Cyc(IncomeCells, i),
   JobSatisfaction |-> Cyc(JobSatisfactionCells, i),
   EnvironmentSatisfaction |-> Cyc(EnvironmentSatisfactionCells, i),
   WorkLifeBalance |-> Cyc(WorkLifeBalanceCells, i),
   OverTime |-> Cyc(OverTimeCells, i),
   YearsSinceLastPromotion |-> Cyc(PromotionCells, i)]

CsvColumns == DOMAIN SampleEmployee(1, CHOOSE k \in Kinds : TRUE)

\* Every file of at most max rows with the full header.
FilesUpTo(max) ==
  UNION {{Table(CsvColumns, [i \in 1..n |-> SampleEmployee(i, ks[i])]) : ks \in [1..n -> Kinds]}
         : n \in 0..max}

EnumeratedFiles == FilesUpTo(MaxEmp)

\* One active employee, then d departed ones (tenures 1..d), then a - 1 active
\* ones; the departments alternate.
ScenarioKind(i, d) ==
  [Department |-> Cyc(Departments, i),
   Attrition |-> IF i >= 2 /\ i <= d + 1 THEN "Yes" ELSE "No"]

ScenarioFile(d, a) ==
  Table(CsvColumns, [i \in 1..(d + a) |-> SampleEmployee(i, ScenarioKind(i, d))])

ScenarioFiles == {ScenarioFile(d, a) : d \in 1..MaxDeparted, a \in 1..MaxActive}

\* The same rows under a header that lacks some columns.
WithoutColumns(file, cs) == DropColumns(file, cs)

Paths == {"hr.csv", "other.csv"}

(***************************************************************************)
(* HRDataModel: the preparation stages.                                    *)
(***************************************************************************)
HRDataModel(data_path) ==
  [data_path |-> data_path, df_employee |-> None, df_department |-> None,
   df_demographics |-> None, f_headcount |-> None, f_separations |-> None,
   df_merged |-> None]

\* pd.read_csv raises when the file is missing.
load_data_raises(h, fs) == fs[h.data_path] = None

load_data(h, fs) == [h EXCEPT !.df_employee = fs[h.data_path]]

\* pd.to_numeric(errors='coerce') of a cell that parses.
ToNumeric(v) == v

NumericCols == {"Age", "MonthlyIncome", "YearsAtCompany", "TotalWorkingYears"}

clean_data(h) ==
  LET df == h.df_employee
      constant_cols == {c \in df.cols : NUnique(df, c) <= 1}
      kept == DropColumns(df, constant_cols)
      typed == Table(kept.cols,
                     [i \in 1..Len(kept.rows) |->
                        [c \in kept.cols |->
                           IF c \in NumericCols THEN ToNumeric(kept.rows[i][c])
                           ELSE kept.rows[i][c]]])
  IN [h EXCEPT !.df_employee = typed]

HashBuckets == 100000

\* hash(str(x)): a function of the value and of the process's hash seed, of
\* either sign.
StrHash(s, x) == IF s % 2 = 0 THEN (x + 1) * 48271 + s * 69621 ELSE -((x + 1) * 16807 + s * 40692)

\* The hash written over the raw identifier instead of beside it.
AnonymizeInPlace(h, s) ==
  LET df == h.df_employee
  IN IF "EmployeeNumber" \in df.cols
     THEN [h EXCEPT !.df_employee =
             WithColumn(df, "EmployeeNumber",
                        [i \in 1..Len(df.rows) |->
                           StrHash(s, df.rows[i]["EmployeeNumber"]) % HashBuckets])]
     ELSE h

anonymize_pii(h, s) ==
  LET df == h.df_employee
  IN IF "EmployeeNumber" \in df.cols
     THEN [h EXCEPT !.df_employee =
             WithColumn(df, "EmployeeID",
                        [i \in 1..Len(df.rows) |->
                           StrHash(s, df.rows[i]["EmployeeNumber"]) % HashBuckets])]
     ELSE h

create_department_table_raises(h) == "Department" \notin h.df_employee.cols

create_department_table(h) ==
  LET departments == Unique(Column(h.df_employee, "Department"))
  IN [h EXCEPT !.df_department =
        Table({"DepartmentID", "DepartmentName"},
              [i \in 1..Len(departments) |->
                 [DepartmentID |-> i, DepartmentName |-> departments[i]]])]

AgeBins == <<0, 25, 35, 45, 55, 100>>
AgeLabels == <<"18-25", "26-35", "36-45", "46-55", "55+">>

\* The bins closed on the left: [bins[i], bins[i+1]).
CutLeftClosed(x, bins, labels) ==
  IF \E i \in 1..Len(labels) : bins[i] <= x /\ x < bins[i + 1]
  THEN labels[CHOOSE i \in 1..Len(labels) : bins[i] <= x /\ x < bins[i + 1]]
  ELSE "NaN"

\* pd.cut(bins, labels): bin i is (bins[i], bins[i+1]]; outside every bin, NaN.
Cut(x, bins, labels) ==
  IF \E i \in 1..Len(labels) : bins[i] < x /\ x <= bins[i + 1]
  THEN labels[CHOOSE i \in 1..Len(labels) : bins[i] < x /\ x <= bins[i + 1]]
  ELSE "NaN"

DemoCols == {"Gender", "MaritalStatus", "EducationField", "Age"}

create_demographics_table_raises(h) == "EmployeeNumber" \notin h.df_employee.cols

create_demographics_table(h) ==
  LET df == h.df_employee
      available_cols == {"EmployeeNumber"} \cup (DemoCols \cap df.cols)
      demo == Project(df, available_cols)
  IN [h EXCEPT !.df_demographics =
        IF "Age" \in demo.cols
        THEN WithColumn(demo, "AgeGroup",
                        [i \in 1..Len(demo.rows) |-> Cut(demo.rows[i]["Age"], AgeBins, AgeLabels)])
        ELSE demo]

SnapshotMonths == 12
RandLow == -20
RandHigh == 20

\* np.random.randint(RandLow, RandHigh) for each month: the draws the model takes.
RandintDraws ==
  {[m \in 1..SnapshotMonths |-> RandLow],
   [m \in 1..SnapshotMonths |-> IF m % 2 = 1 THEN RandHigh - 1 ELSE RandLow]}

\* Headcount is max(count, base_count * 0.9), kept in tenths.
create_headcount_snapshot(h, noise) ==
  LET base_count == Len(h.df_employee.rows)
  IN [h EXCEPT !.f_headcount =
        Table({"Month", "Headcount"},
              [m \in 1..SnapshotMonths |->
                 [Month |-> m, Headcount |-> Max(10 * (base_count + noise[m]), 9 * base_count)]])]

ReferenceDay == 0      \* pd.to_datetime('2024-01-01'), the day dates are counted from
DaysPerYear == 365

ReasonCols ==
  {"JobSatisfaction", "EnvironmentSatisfaction", "WorkLifeBalance", "MonthlyIncome",
   "OverTime", "YearsSinceLastPromotion"}

SeparationCols ==
  {"EmployeeNumber", "Department", "JobRole", "SeparationDate", "SeparationReason",
   "MonthlyIncome", "YearsAtCompany"}

\* Twice Series.median(): the middle value, or the mean of the two middle values.
TwiceMedian(values) ==
  LET s == Sorted(values)
      n == Len(s)
  IN IF n % 2 = 1 THEN 2 * s[(n + 1) \div 2] ELSE s[n \div 2] + s[(n \div 2) + 1]

\* The same list with the income test and the overtime test in the other order.
ReasonsOfSwapped(row, twiceMedian) ==
  (IF row["JobSatisfaction"] <= 2 THEN <<"Low Job Satisfaction">> ELSE <<>>)
  \o (IF row["EnvironmentSatisfaction"] <= 2 THEN <<"Poor Work Environment">> ELSE <<>>)
  \o (IF row["WorkLifeBalance"] <= 2 THEN <<"Work-Life Balance">> ELSE <<>>)
  \o (IF row["OverTime"] = "Yes" THEN <<"Overtime Concerns">> ELSE <<>>)
  \o (IF 2 * row["MonthlyIncome"] < twiceMedian THEN <<"Compensation">> ELSE <<>>)
  \o (IF row["YearsSinceLastPromotion"] > 5 THEN <<"Limited Growth">> ELSE <<>>)

\* The reasons list of _infer_separation_reason, every matching label in order.
ReasonsOf(row, twiceMedian) ==
  (IF row["JobSatisfaction"] <= 2 THEN <<"Low Job Satisfaction">> ELSE <<>>)
  \o (IF row["EnvironmentSatisfaction"] <= 2 THEN <<"Poor Work Environment">> ELSE <<>>)
  \o (IF row["WorkLifeBalance"] <= 2 THEN <<"Work-Life Balance">> ELSE <<>>)
  \o (IF 2 * row["MonthlyIncome"] < twiceMedian THEN <<"Compensation">> ELSE <<>>)
  \o (IF row["OverTime"] = "Yes" THEN <<"Overtime Concerns">> ELSE <<>>)
  \o (IF row["YearsSinceLastPromotion"] > 5 THEN <<"Limited Growth">> ELSE <<>>)

infer_separation_reason(row, twiceMedian) ==
  LET reasons == ReasonsOf(row, twiceMedian)
  IN IF reasons # <<>> THEN reasons[1] ELSE "Other"

\* A KeyError: the attrition or tenure column is gone, a departed row is asked
\* for a column it lacks, or a selected column is gone.
create_separations_table_raises(h) ==
  LET df == h.df_employee
  IN IF "Attrition" \notin df.cols THEN TRUE
     ELSE IF "YearsAtCompany" \notin df.cols THEN TRUE
     ELSE IF (\E i \in 1..Len(df.rows) : df.rows[i]["Attrition"] = "Yes")
             /\ ~(ReasonCols \subseteq df.cols) THEN TRUE
     ELSE ~((SeparationCols \ {"SeparationDate", "SeparationReason"}) \subseteq df.cols)

\* The rows create_separations_table would select with the flag of the active.
DepartedRowsWrongFlag(df) == SelectSeq(df.rows, LAMBDA r : r["Attrition"] = "No")

DepartedRows(df) == SelectSeq(df.rows, LAMBDA r : r["Attrition"] = "Yes")

create_separations_table(h) ==
  LET df == h.df_employee
      separations == Table(df.cols, DepartedRows(df))
      twiceMedian == TwiceMedian(Column(df, "MonthlyIncome"))
      dated == WithColumn(separations, "SeparationDate",
                 [i \in 1..Len(separations.rows) |->
                    ReferenceDay - separations.rows[i]["YearsAtCompany"] * DaysPerYear])
      reasoned == WithColumn(dated, "SeparationReason",
                    [i \in 1..Len(dated.rows) |->
                       infer_separation_reason(dated.rows[i], twiceMedian)])
  IN [h EXCEPT !.f_separations = Project(reasoned, SeparationCols)]

RECURSIVE LeftJoinRows(_, _, _, _)
\* DataFrame.merge(how='left'): every left row with each right row whose key
\* matches, in order; with NaN in the right columns when none matches.
LeftJoinRows(left, right, left_on, right_on) ==
  IF left.rows = <<>> THEN <<>>
  ELSE LET n == Len(left.rows)
           row == left.rows[n]
           cols == left.cols \cup right.cols
           matches == SelectSeq(right.rows, LAMBDA d : d[right_on] = row[left_on])
           joined == IF matches = <<>>
                     THEN <<[c \in cols |-> IF c \in left.cols THEN row[c] ELSE "NaN"]>>
                     ELSE [j \in 1..Len(matches) |->
                             [c \in cols |-> IF c \in left.cols THEN row[c] ELSE matches[j][c]]]
       IN LeftJoinRows(Table(left.cols, SubSeq(left.rows, 1, n - 1)), right, left_on, right_on)
          \o joined

merge_tables(h) ==
  IF h.df_department # None
  THEN [h EXCEPT !.df_merged =
          Table(h.df_employee.cols \cup h.df_department.cols,
                LeftJoinRows(h.df_employee, h.df_department, "Department", "DepartmentName"))]
  ELSE [h EXCEPT !.df_merged = h.df_employee]

\* The dict prepare_complete_model returns.
DataDict(h) ==
  [employee |-> h.df_employee, department |-> h.df_department,
   demographics |-> h.df_demographics, headcount |-> h.f_headcount,
   separations |-> h.f_separations, merged |-> h.df_merged]

Stages ==
  <<"load_data", "clean_data", "anonymize_pii", "create_department_table",
    "create_demographics_table", "create_headcount_snapshot",
    "create_separations_table", "merge_tables">>

\* prepare_complete_model as one step: the stages in order, None when one raises.
prepare_complete_model(data_path, fs, s, noise) ==
  LET h0 == HRDataModel(data_path)
  IN IF load_data_raises(h0, fs) THEN None
     ELSE LET h3 == anonymize_pii(clean_data(load_data(h0, fs)), s)
          IN IF create_department_table_raises(h3) THEN None
             ELSE LET h4 == create_department_table(h3)
                  IN IF create_demographics_table_raises(h4) THEN None
                     ELSE LET h6 == create_headcount_snapshot(create_demographics_table(h4), noise)
                          IN IF create_separations_table_raises(h6) THEN None
                             ELSE DataDict(merge_tables(create_separations_table(h6)))

(***************************************************************************)
(* DAXMeasures: the metrics engine.  A filter mapping is a function from   *)
(* column names to filter values: Eq(v) a single value, In(vs) a list of   *)
(* values, NoValue the value None.  The filters argument is such a mapping *)
(* or None.                                                                *)
(***************************************************************************)
Eq(v) == [kind |-> "eq", v |-> v]
In(vs) == [kind |-> "in", vs |-> vs]
NoValue == [kind |-> "none"]

\* One key of the loop of _apply_filters.
ApplyKey(df, key, value) ==
  IF key \in df.cols /\ value # NoValue
  THEN IF value.kind = "in"
       THEN Table(df.cols, SelectSeq(df.rows, LAMBDA r : r[key] \in value.vs))
       ELSE Table(df.cols, SelectSeq(df.rows, LAMBDA r : r[key] = value.v))
  ELSE df

\* The loop of _apply_filters stopping after the first key.
ApplyFirstKeyOnly(df, filters, keys) ==
  IF keys = {} THEN df
  ELSE LET key == CHOOSE k \in keys : TRUE
       IN ApplyKey(df, key, filters[key])

RECURSIVE ApplyKeys(_, _, _)
ApplyKeys(df, filters, keys) ==
  IF keys = {} THEN df
  ELSE LET key == CHOOSE k \in keys : TRUE
       IN ApplyKeys(ApplyKey(df, key, filters[key]), filters, keys \ {key})

\* _apply_filters: the table itself when filters is None (alias), else a
\* filtered copy.
apply_filters(df, filters) ==
  IF filters = None THEN [alias |-> TRUE, df |-> df]
  ELSE [alias |-> FALSE, df |-> ApplyKeys(df, filters, DOMAIN filters)]

calculate_headcount(dm, filters) ==
  LET df_filtered == apply_filters(dm.merged, filters).df
  IN Len(SelectSeq(df_filtered.rows, LAMBDA r : r["Attrition"] = "No"))

DefaultPeriod == 12
DaysPerMonth == 30

\* `if filters:` holds of a mapping with at least one key.
Truthy(filters) == filters # None /\ DOMAIN filters # {}

separations_filtered(dm, filters, period_months, now) ==
  LET filtered == IF Truthy(filters) THEN apply_filters(dm.separations, filters).df
                  ELSE dm.separations
  IN IF period_months < DefaultPeriod
     THEN LET cutoff_date == now - period_months * DaysPerMonth
          IN Table(filtered.cols,
                   SelectSeq(filtered.rows, LAMBDA r : r["SeparationDate"] >= cutoff_date))
     ELSE filtered

calculate_separations(dm, filters, period_months, now) ==
  Len(separations_filtered(dm, filters, period_months, now).rows)

(***************************************************************************)
(* Binary64 arithmetic.  Python floats and numpy float64 are IEEE 754       *)
(* doubles: every operation returns the double nearest the exact result, a *)
(* tie going to the even significand.  A double is sign * m * 2^e with m a  *)
(* significand of 53 bits (2^52 <= m < 2^53), or zero.  The values of the   *)
(* measures stay far from overflow, underflow and subnormal numbers.       *)
(***************************************************************************)
\* A significand of 53 bits is kept as <<high, low>> with low below 2^27.
Limb == 2 ^ 27

\* The high part of 2^52, the least significand of a normal number.
LeadBit == 2 ^ 25

\* The high part of 2^53, one past the greatest significand.
PastTop == 2 ^ 26

\* Sum, difference, order, double, half and parity of two-part naturals.
PAdd(p, q) == LET l == p[2] + q[2] IN <<p[1] + q[1] + l \div Limb, l % Limb>>

PSub(p, q) ==
  LET l == p[2] - q[2]
  IN IF l < 0 THEN <<p[1] - q[1] - 1, l + Limb>> ELSE <<p[1] - q[1], l>>

PGeq(p, q) == p[1] > q[1] \/ (p[1] = q[1] /\ p[2] >= q[2])

PShl(p) == <<2 * p[1] + (2 * p[2]) \div Limb, (2 * p[2]) % Limb>>

PShr(p) == <<p[1] \div 2, (p[2] + (p[1] % 2) * Limb) \div 2>>

POdd(p) == p[2] % 2 = 1

\* TLC computes an operator's argument when it is first read: reading the
\* state here keeps the evaluation of a long loop shallow.
Computed(v) == v = v

ZeroDouble == [sign |-> 0, m |-> <<0, 0>>, e |-> 0]

\* m * 2^e with m rounded up by one unit when up, renormalised.
RoundPack(sign, m, e, up) ==
  LET m1 == IF up THEN PAdd(m, <<0, 1>>) ELSE m
  IN IF m1[1] >= PastTop THEN [sign |-> sign, m |-> <<LeadBit, 0>>, e |-> e + 1]
     ELSE [sign |-> sign, m |-> m1, e |-> e]

\* The number of bits of k, for 0 < k < 2^30.
BitLength(k) == CHOOSE b \in 1..30 : 2 ^ (b - 1) <= k /\ k < 2 ^ b

\* float(k): exact, for |k| < 2^30.
FromInt(k) ==
  IF k = 0 THEN ZeroDouble
  ELSE LET a == IF k < 0 THEN -k ELSE k
           s == 53 - BitLength(a)
           m == IF s >= 27 THEN <<a * 2 ^ (s - 27), 0>>
                ELSE <<a \div 2 ^ (27 - s), (a % 2 ^ (27 - s)) * 2 ^ s>>
       IN [sign |-> IF k < 0 THEN -1 ELSE 1, m |-> m, e |-> -s]

\* One bit of the quotient: the remainder doubled, the divisor taken off it
\* when it fits.
DivStep(s, d) ==
  LET r2 == PShl(s.rem)
  IN IF PGeq(r2, d) THEN [q |-> PAdd(PShl(s.q), <<0, 1>>), rem |-> PSub(r2, d)]
     ELSE [q |-> PShl(s.q), rem |-> r2]

RECURSIVE DivSteps(_, _, _)
DivSteps(s, d, k) ==
  IF k = 1 THEN DivStep(s, d)
  ELSE LET half == DivSteps(s, d, k \div 2)
       IN IF Computed(half) THEN DivSteps(half, d, k - k \div 2) ELSE half

\* The quotient r.q of k + 1 bits rounded by the remainder r.rem.
DivPack(a, b, k, r) ==
  LET r2 == PShl(r.rem)
      up == IF r2 = b.m THEN POdd(r.q) ELSE PGeq(r2, b.m)
  IN RoundPack(a.sign * b.sign, r.q, a.e - b.e - k, up)

\* a / b for b # 0: the 53 leading bits of the quotient by long division,
\* rounded by the remainder.
Div(a, b) ==
  IF a.sign = 0 THEN ZeroDouble
  ELSE IF PGeq(a.m, b.m)
  THEN DivPack(a, b, 52, DivSteps([q |-> <<0, 1>>, rem |-> PSub(a.m, b.m)], b.m, 52))
  ELSE DivPack(a, b, 53, DivSteps([q |-> <<0, 0>>, rem |-> a.m], b.m, 53))

\* One bit of the root, from the next two bits of the radicand w * 2^52.
SqrtStep(s) ==
  LET top2 == s.w[1] \div LeadBit
      w2 == <<(s.w[1] % LeadBit) * 4 + s.w[2] \div LeadBit, (s.w[2] % LeadBit) * 4>>
      rem4 == PAdd(PShl(PShl(s.rem)), <<0, top2>>)
      trial == PAdd(PShl(PShl(s.root)), <<0, 1>>)
  IN IF PGeq(rem4, trial)
     THEN [root |-> PAdd(PShl(s.root), <<0, 1>>), rem |-> PSub(rem4, trial), w |-> w2]
     ELSE [root |-> PShl(s.root), rem |-> rem4, w |-> w2]

RECURSIVE SqrtSteps(_, _)
SqrtSteps(s, k) ==
  IF k = 1 THEN SqrtStep(s)
  ELSE LET half == SqrtSteps(s, k \div 2)
       IN IF Computed(half) THEN SqrtSteps(half, k - k \div 2) ELSE half

\* sqrt(a) for a >= 0: the 53 bits of the integer root of m * 2^52 (or
\* m * 2^53 when e is odd), rounded up when the remainder exceeds the root.
Sqrt(a) ==
  IF a.sign = 0 THEN ZeroDouble
  ELSE LET even == a.e % 2 = 0
           w == IF even THEN a.m ELSE PShl(a.m)
           e2 == IF even THEN a.e ELSE a.e - 1
           r == SqrtSteps([root |-> <<0, 0>>, rem |-> <<0, 0>>, w |-> w], 53)
       IN RoundPack(1, r.root, (e2 - 52) \div 2, r.rem # r.root /\ PGeq(r.rem, r.root))

\* One bit of the multiplier k, the lowest first: the multiplicand added when
\* the bit is set, the sum halved, the bit that falls off kept in out.
MulStep(s, m, k) ==
  LET acc1 == IF (k \div 2 ^ s.i) % 2 = 1 THEN PAdd(s.acc, m) ELSE s.acc
  IN [acc |-> PShr(acc1), out |-> s.out + (IF POdd(acc1) THEN 2 ^ s.i ELSE 0), i |-> s.i + 1]

RECURSIVE MulSteps(_, _, _, _)
MulSteps(s, m, k, n) ==
  IF n = 0 THEN s
  ELSE IF n = 1 THEN MulStep(s, m, k)
  ELSE LET half == MulSteps(s, m, k, n \div 2)
       IN IF Computed(half) THEN MulSteps(half, m, k, n - n \div 2) ELSE half

\* m * k exactly, as acc * 2^nout + out with acc of 53 or 54 bits.
MulExact(m, k) ==
  LET s == MulSteps([acc |-> <<0, 0>>, out |-> 0, i |-> 0], m, k, BitLength(k) - 1)
  IN [acc |-> PAdd(s.acc, m), out |-> s.out, nout |-> s.i]

\* The exact product p of a.m rounded to 53 bits, a tie to the even.
MulPack(a, p) ==
  LET wide == p.acc[1] >= PastTop
      m == IF wide THEN PShr(p.acc) ELSE p.acc
      guard == IF wide THEN POdd(p.acc)
               ELSE p.nout > 0 /\ p.out >= 2 ^ (p.nout - 1)
      sticky == IF wide THEN p.out # 0
                ELSE p.nout > 0 /\ p.out % (2 ^ (p.nout - 1)) # 0
  IN RoundPack(a.sign, m, a.e + p.nout + (IF wide THEN 1 ELSE 0),
               guard /\ (sticky \/ POdd(m)))

\* a * k for an integer k > 0, rounded.
MulInt(a, k) == IF a.sign = 0 THEN ZeroDouble ELSE MulPack(a, MulExact(a.m, k))

\* The exact product p of a.m and 100, which is p * 2^-t, to the nearest
\* integer, a tie to the even.
HundredthsNear(a, p) ==
  LET t == -(a.e + p.nout)
  IN IF t >= 55 THEN 0
  ELSE LET sh == 2 ^ (t - 27)
           floor == p.acc[1] \div sh
           rem == <<p.acc[1] % sh, p.acc[2]>>
           half == <<sh \div 2, 0>>
           up == IF rem = half /\ p.out = 0 THEN floor % 2 = 1
                 ELSE PGeq(rem, half)
       IN IF up THEN floor + 1 ELSE floor

\* The value cut off to hundredths instead of rounded.
HundredthsDown(a) ==
  IF a.sign = 0 THEN 0
  ELSE LET p == MulExact(a.m, 100)
           t == -(a.e + p.nout)
       IN IF t >= 55 THEN 0 ELSE p.acc[1] \div 2 ^ (t - 27)

\* round(a, 2) for 0 <= a < 2^19, in hundredths: a * 100 taken exactly and
\* rounded to the nearest integer, a tie to the even (round is correctly
\* rounded on the double's own value).
Hundredths(a) ==
  IF a.sign = 0 THEN 0
  ELSE HundredthsNear(a, MulExact(a.m, 100))

\* abs(a) < abs(b).
AbsLessDouble(a, b) ==
  IF b.sign = 0 THEN FALSE
  ELSE IF a.sign = 0 THEN TRUE
  ELSE a.e < b.e \/ (a.e = b.e /\ a.m # b.m /\ PGeq(b.m, a.m))

OneDouble == [sign |-> 1, m |-> <<LeadBit, 0>>, e |-> -52]

\* np.clip(a, -1, 1).
Clip(a) == IF AbsLessDouble(OneDouble, a) THEN [OneDouble EXCEPT !.sign = a.sign] ELSE a

\* round((separations / headcount) * 100, 2) in doubles, in hundredths of a
\* percent.
Rate(separations, headcount) ==
  Hundredths(MulInt(Div(FromInt(separations), FromInt(headcount)), 100))

\* The most rows an input file has.
MaxRows == Max(MaxEmp, MaxDeparted + MaxActive)

\* Rate is a function of the two counts: its values for the counts the input
\* files allow are worked out once.
KnownRates == [c \in (0..MaxRows) \X (1..MaxRows) |-> Rate(c[1], c[2])]

\* Rate of the two counts c, read from the known values when c is among them.
RateOf(known, c) == IF c \in DOMAIN known THEN known[c] ELSE Rate(c[1], c[2])

calculate_attrition_rate(dm, filters, period_months, now) ==
  LET separations == calculate_separations(dm, filters, period_months, now)
      headcount == calculate_headcount(dm, filters)
  IN IF headcount = 0 THEN 0 ELSE RateOf(KnownRates, <<separations, headcount>>)

\* The department constraint merged under the keys of filters: an entry the
\* mapping already has for Department wins.
DeptFiltersFirstWins(filters, dept) ==
  IF Truthy(filters)
  THEN [k \in DOMAIN filters \cup {"Department"} |->
          IF k \in DOMAIN filters THEN filters[k] ELSE Eq(dept)]
  ELSE [k \in {"Department"} |-> Eq(dept)]

\* {**filters, 'Department': dept} if filters else {'Department': dept}: a new
\* mapping, the department entry written last.
dept_filters(filters, dept) ==
  IF Truthy(filters)
  THEN [k \in DOMAIN filters \cup {"Department"} |->
          IF k = "Department" THEN Eq(dept) ELSE filters[k]]
  ELSE [k \in {"Department"} |-> Eq(dept)]

RECURSIVE attrition_by_department_loop(_, _, _, _)
\* The loop of calculate_attrition_by_department over the departments left to
\* visit: the results dict, and the caller's filters as the loop leaves them.
attrition_by_department_loop(dm, filters, depts, results) ==
  IF depts = <<>> THEN [results |-> results, filters |-> filters]
  ELSE LET dept == Head(depts)
           rate == calculate_attrition_rate(dm, dept_filters(filters, dept), DefaultPeriod, 0)
       IN attrition_by_department_loop(
            dm, filters, Tail(depts),
            [d \in DOMAIN results \cup {dept} |-> IF d = dept THEN rate ELSE results[d]])

calculate_attrition_by_department(dm, filters) ==
  LET df_filtered == apply_filters(dm.merged, filters).df
  IN attrition_by_department_loop(dm, filters, Unique(Column(df_filtered, "Department")),
                                  [d \in {} |-> 0])

\* The reasons counted over the whole Separations Fact, whatever the filters.
SeparationsByReasonUnfiltered(dm, filters) ==
  LET rows == dm.separations.rows
  IN [l \in {rows[i]["SeparationReason"] : i \in 1..Len(rows)} |->
        Cardinality({i \in 1..Len(rows) : rows[i]["SeparationReason"] = l})]

\* separations_filtered['SeparationReason'].value_counts().to_dict(): each
\* label that occurs, with the number of rows that carry it.
calculate_separations_by_reason(dm, filters) ==
  LET filtered == IF Truthy(filters) THEN apply_filters(dm.separations, filters).df
                  ELSE dm.separations
      rows == filtered.rows
  IN [l \in {rows[i]["SeparationReason"] : i \in 1..Len(rows)} |->
        Cardinality({i \in 1..Len(rows) : rows[i]["SeparationReason"] = l})]

InfluencerCols ==
  <<"Age", "MonthlyIncome", "YearsAtCompany", "TotalWorkingYears", "JobSatisfaction",
    "EnvironmentSatisfaction", "WorkLifeBalance", "YearsSinceLastPromotion",
    "DistanceFromHome", "PercentSalaryHike">>

RECURSIVE LeqFrac(_, _, _, _)
\* a/b <= c/d for a, c >= 0 and b, d > 0, by continued fractions (no products).
LeqFrac(a, b, c, d) ==
  LET qa == a \div b
      qc == c \div d
      ra == a % b
      rc == c % d
  IN IF qa # qc THEN qa < qc
     ELSE IF ra = 0 THEN TRUE
     ELSE IF rc = 0 THEN FALSE
     ELSE LeqFrac(d, rc, b, ra)

\* df_filtered['AttritionBinary'] = (df_filtered['Attrition'] == 'Yes').astype(int)
WithAttritionBinary(df) ==
  WithColumn(df, "AttritionBinary",
             [i \in 1..Len(df.rows) |-> IF df.rows[i]["Attrition"] = "Yes" THEN 1 ELSE 0])

RECURSIVE OddPart(_)
\* n without its factors of two, for n > 0.
OddPart(n) == IF n % 2 = 1 THEN n ELSE OddPart(n \div 2)

\* The sums Series.corr works from: the rows, the two columns, their squares
\* and their products.
Moments(rows, col, other) ==
  LET n == Len(rows)
  IN [n |-> n,
      sx |-> SumOver([i \in 1..n |-> rows[i][col]], n),
      sy |-> SumOver([i \in 1..n |-> rows[i][other]], n),
      sxy |-> SumOver([i \in 1..n |-> rows[i][col] * rows[i][other]], n),
      sxx |-> SumOver([i \in 1..n |-> rows[i][col] * rows[i][col]], n),
      syy |-> SumOver([i \in 1..n |-> rows[i][other] * rows[i][other]], n)]

\* n^2 (n - 1)^2 times the product of the two variances.
Den2(m) == (m.n * m.sxx - m.sx * m.sx) * (m.n * m.syy - m.sy * m.sy)

\* Both columns vary and both means are doubles without rounding (the odd
\* part of n divides both sums): the deviations, their products and the sums
\* of the products are then exact in every order of summation, and the double
\* np.corrcoef returns is the same on every build.
Exact(m) == Den2(m) # 0 /\ m.sx % OddPart(m.n) = 0 /\ m.sy % OddPart(m.n) = 0

\* c *= 1 / (n - 1) for one entry k / 2^shift of the matrix, inv being
\* 1 / (n - 1).
CovEntry(k, shift, inv) ==
  IF k = 0 THEN ZeroDouble
  ELSE [MulInt(inv, Abs(k)) EXCEPT !.e = @ - shift,
                                   !.sign = IF k < 0 THEN -1 ELSE 1]

\* np.cov of the two columns, for exact moments: the sums of products of
\* deviations are k / scale with k an integer and scale a power of two.
cov(m, inv) ==
  LET odd == OddPart(m.n)
      scale == m.n \div odd
      shift == BitLength(scale) - 1
  IN [xx |-> CovEntry(scale * m.sxx - m.sx * (m.sx \div odd), shift, inv),
      yy |-> CovEntry(scale * m.syy - m.sy * (m.sy \div odd), shift, inv),
      xy |-> CovEntry(scale * m.sxy - m.sx * (m.sy \div odd), shift, inv)]

\* c / stddev[:, None] / stddev[None, :], clipped, at [0, 1].
Normalised(c) == Clip(Div(Div(c.xy, Sqrt(c.xx)), Sqrt(c.yy)))

\* np.corrcoef(x, y)[0, 1] for exact moments.  What is rounded is
\* 1 / (n - 1), the three products by it (np.cov), the two roots and the two
\* quotients (np.corrcoef), before the clip.
corrcoef(m) == Normalised(cov(m, Div(FromInt(1), FromInt(m.n - 1))))

(***************************************************************************)
(* The inputs of the metrics engine: the files a data model is prepared    *)
(* from and the filter arguments of the calls.                             *)
(***************************************************************************)
MetricsFiles ==
  EnumeratedFiles \cup ScenarioFiles \cup {WithoutColumns(ScenarioFile(1, 2), {"Age"})}

FilterChoices ==
  [Department |-> {Eq("Sales"), Eq("Research & Development"),
                   In({"Sales", "Human Resources"}), NoValue},
   Gender |-> {Eq("Male"), Eq("Female")}]

\* Every filter mapping over the keys of FilterChoices.
FilterMappings ==
  UNION {{F \in [ks -> UNION {FilterChoices[k] : k \in ks}] :
            \A k \in ks : F[k] \in FilterChoices[k]}
         : ks \in SUBSET (DOMAIN FilterChoices)}

FilterArgs == {None} \cup FilterMappings

\* The views the calls of the metrics engine filter out of the prepared
\* models, AttritionBinary added.
KnownViews ==
  {WithAttritionBinary(v) :
     v \in {apply_filters(d.merged, F).df :
              d \in {prepare_complete_model("hr.csv",
                                            [p \in Paths |-> IF p = "hr.csv" THEN f ELSE None],
                                            0, [k \in 1..SnapshotMonths |-> RandLow]) :
                       f \in MetricsFiles} \ {None},
              F \in FilterArgs}}

\* corrcoef is a function of the moments: its values for the columns of the
\* known views are worked out once.
KnownCorrcoef ==
  [m \in {k \in UNION {{Moments(v.rows, c, "AttritionBinary") :
                           c \in Range(InfluencerCols) \cap v.cols} : v \in KnownViews} :
            Exact(k)} |-> corrcoef(m)]

\* corrcoef(m), read from the known values when m is among them.
Corrcoef(known, m) == IF m \in DOMAIN known THEN known[m] ELSE corrcoef(m)

\* Series.corr of two columns.  The real correlation is num / sqrt(den2); the
\* result is NaN when den2 = 0 (fewer than two rows, or a column that does not
\* vary).  exact says that the double returned is the same on every build,
\* and value is that double; otherwise the deviations from the means are
\* rounded, the order in which the BLAS of the build sums their products
\* decides the last bits, and the double is one of those next to the real
\* correlation.  data is the column, which decides the double on one build.
\* The correlation of the moments m of the column data.
CorrOf(m, exact, data) ==
  [num |-> m.n * m.sxy - m.sx * m.sy, den2 |-> Den2(m), exact |-> exact,
   value |-> IF exact THEN Corrcoef(KnownCorrcoef, m) ELSE ZeroDouble,
   data |-> data]

Corr(rows, col, other) ==
  LET m == Moments(rows, col, other)
  IN CorrOf(m, Exact(m), [i \in 1..m.n |-> rows[i][col]])

IsNaN(corr) == corr.den2 = 0

\* abs(x) < abs(y) for two defined correlations, on every build: by the
\* doubles when both are known, by the real correlations otherwise.
AbsLess(x, y) ==
  IF x.exact /\ y.exact THEN AbsLessDouble(x.value, y.value)
  ELSE ~LeqFrac(y.num * y.num, y.den2, x.num * x.num, x.den2)

\* The real correlations are equal in size and the build decides which
\* double is the greater, if any.
BuildDecides(x, y) ==
  /\ ~(x.exact /\ y.exact)
  /\ x.data # y.data
  /\ ~AbsLess(x, y)
  /\ ~AbsLess(y, x)

\* items[j] is before items[i] in sorted(key=abs, reverse=True) on every
\* build: its key is greater, or the keys are equal and it is earlier in the
\* dict (the sort is stable).
Before(items, j, i) ==
  \/ AbsLess(items[i].corr, items[j].corr)
  \/ /\ j < i
     /\ ~AbsLess(items[j].corr, items[i].corr)
     /\ ~BuildDecides(items[j].corr, items[i].corr)

Take(s, n) == SubSeq(s, 1, IF n < Len(s) THEN n ELSE Len(s))

\* The items left in the order of the dict.
NotSorted(items, n) == {Take(items, n)}

RECURSIVE SortedDesc(_, _)
\* sorted(correlations.items(), key=..., reverse=True)[:top_n]: the slices
\* the builds can produce.
SortedDesc(items, n) ==
  IF n = 0 \/ items = <<>> THEN {<<>>}
  ELSE LET first == {i \in 1..Len(items) :
                       \A j \in 1..Len(items) : j # i => ~Before(items, j, i)}
       IN UNION {{<<items[i]>> \o rest :
                    rest \in SortedDesc(SubSeq(items, 1, i - 1)
                                          \o SubSeq(items, i + 1, Len(items)), n - 1)} :
                 i \in first}

RECURSIVE NearestBelow(_, _, _)
\* The largest k in lo..hi with k - 1/2 <= 10000 * abs(corr) (lo has it).
NearestBelow(corr, lo, hi) ==
  IF lo = hi THEN lo
  ELSE LET mid == (lo + hi + 1) \div 2
       IN IF LeqFrac((2 * mid - 1) * (2 * mid - 1), 4 * 10000 * 10000,
                     corr.num * corr.num, corr.den2)
          THEN NearestBelow(corr, mid, hi)
          ELSE NearestBelow(corr, lo, mid - 1)

\* round(abs(corr) * 100, 2), in hundredths: of the double when it is known;
\* otherwise of the real correlation, and either neighbour when that is half
\* way between two hundredths.
Impact(corr) ==
  IF corr.exact THEN {Hundredths(MulInt(corr.value, 100))}
  ELSE LET k == NearestBelow(corr, 0, 100 * 100)
       IN IF k > 0 /\ LeqFrac(corr.num * corr.num, corr.den2,
                             (2 * k - 1) * (2 * k - 1), 4 * 10000 * 10000)
          THEN {k - 1, k}
          ELSE {k}

\* "Increases" if actual_corr > 0 else "Decreases"; a real correlation of 0
\* whose double the build decides can come out on either side.
Direction(corr) ==
  IF corr.exact THEN {IF corr.value.sign > 0 THEN "Increases" ELSE "Decreases"}
  ELSE IF corr.num > 0 THEN {"Increases"}
  ELSE IF corr.num < 0 THEN {"Decreases"}
  ELSE {"Increases", "Decreases"}

\* The loop over the listed columns the view has: those whose correlation
\* with AttritionBinary is not NaN.
CorrelationsOf(rows, present) ==
  SelectSeq([i \in 1..Len(present) |->
               [col |-> present[i], corr |-> Corr(rows, present[i], "AttritionBinary")]],
            LAMBDA item : ~IsNaN(item.corr))

\* The correlations dict: the listed columns the view has whose correlation
\* with AttritionBinary is not NaN, in list order.
Correlations(rows, cols) ==
  CorrelationsOf(rows, SelectSeq(InfluencerCols, LAMBDA c : c \in cols))

\* The rows of one build agree with its doubles: the same column data gives
\* the same double, and a greater key does not round to a smaller Impact.
OneBuild(top, frame) ==
  \A i, j \in 1..Len(top) :
    /\ top[i].corr.data = top[j].corr.data =>
         /\ frame[i].Impact = frame[j].Impact
         /\ frame[i].Direction = frame[j].Direction
    /\ (i < j /\ BuildDecides(top[i].corr, top[j].corr)) =>
         frame[i].Impact >= frame[j].Impact

RECURSIVE TopInfluencers(_)
\* top_influencers: one row for each item, in order.
TopInfluencers(top) ==
  IF top = <<>> THEN {<<>>}
  ELSE LET last == top[Len(top)]
       IN {Append(frame, [Factor |-> last.col, Impact |-> impact, Direction |-> direction]) :
             frame \in TopInfluencers(SubSeq(top, 1, Len(top) - 1)),
             impact \in Impact(last.corr),
             direction \in Direction(last.corr)}

\* The frames of the view df_filtered, and the engine's table after the call.
KeyInfluencers(dm, alias, df_filtered, top_n) ==
  [frames |-> UNION {{frame \in TopInfluencers(top) : OneBuild(top, frame)} :
                       top \in SortedDesc(Correlations(df_filtered.rows, df_filtered.cols),
                                          top_n)},
   merged |-> IF alias THEN df_filtered ELSE dm.merged]

\* identify_key_influencers: the frames it can return (one, unless the build
\* decides an order or a sign) and the table it wrote the AttritionBinary
\* column into (the engine's own table when filters is None).
identify_key_influencers(dm, filters, top_n) ==
  LET applied == apply_filters(dm.merged, filters)
  IN KeyInfluencers(dm, applied.alias, WithAttritionBinary(applied.df), top_n)

(***************************************************************************)
(* The dashboard session (app.py): the Load Data button runs               *)
(* load_data_model, which st.cache_data caches per data_path; the stages   *)
(* of prepare_complete_model are the steps of one load attempt.  The       *)
(* measures object of the session holds the session's data model by        *)
(* reference, so the model keeps the one data_model for both.              *)
(***************************************************************************)
Salts == 0..MaxSalt

SessionFiles ==
  {None} \cup FilesUpTo(MaxSessionEmp)
  \cup {WithoutColumns(ScenarioFile(1, 1), {"EmployeeNumber"}),
        WithoutColumns(ScenarioFile(1, 2), {"Age"})}

OtherFiles == {None, ScenarioFile(1, 1)}

Init ==
  /\ \E f \in SessionFiles, g \in OtherFiles :
       files = [p \in Paths |-> IF p = "hr.csv" THEN f ELSE g]
  /\ salt \in Salts
  /\ cache = [p \in Paths |-> None]
  /\ session = [data_model |-> None, data_loaded |-> FALSE]
  /\ hr = None
  /\ pc = "idle"
  /\ ran = <<>>
  /\ loads = 0
  /\ outcome = "none"
  /\ prepared = None
  /\ result = None
  /\ input = None

\* The button, the path not cached: load_data_model starts the pipeline.
ClickLoad(p) ==
  /\ pc = "idle"
  /\ loads < MaxLoads
  /\ cache[p] = None
  /\ hr' = HRDataModel(p)
  /\ pc' = "load_data"
  /\ ran' = <<>>
  /\ loads' = loads + 1
  /\ outcome' = "running"
  /\ UNCHANGED <<files, salt, cache, session, prepared, result, input>>

\* The button, the path cached: the cached data dict is returned.
ClickLoadCached(p) ==
  /\ pc = "idle"
  /\ loads < MaxLoads
  /\ cache[p] # None
  /\ session' = [data_model |-> cache[p], data_loaded |-> TRUE]
  /\ prepared' = cache[p]
  /\ ran' = <<>>
  /\ loads' = loads + 1
  /\ outcome' = "cached"
  /\ UNCHANGED <<files, salt, cache, hr, pc, result, input>>

\* A stage raises: the exception leaves prepare_complete_model and
\* load_data_model, and main's handler clears data_loaded.
Raise(stage) ==
  /\ pc = stage
  /\ ran' = Append(ran, stage)
  /\ session' = [session EXCEPT !.data_loaded = FALSE]
  /\ pc' = "idle"
  /\ outcome' = "error"
  /\ UNCHANGED <<files, salt, cache, hr, loads, prepared, result, input>>

\* A stage returns: the next stage is up.
Advance(stage, next, h) ==
  /\ pc = stage
  /\ ran' = Append(ran, stage)
  /\ hr' = h
  /\ pc' = next
  /\ UNCHANGED <<files, salt, cache, session, loads, outcome, prepared, result, input>>

LoadDataRaises ==
  /\ pc = "load_data"
  /\ load_data_raises(hr, files)
  /\ Raise("load_data")

LoadData ==
  /\ pc = "load_data"
  /\ ~load_data_raises(hr, files)
  /\ Advance("load_data", "clean_data", load_data(hr, files))

CleanData ==
  /\ pc = "clean_data"
  /\ Advance("clean_data", "anonymize_pii", clean_data(hr))

AnonymizePii ==
  /\ pc = "anonymize_pii"
  /\ Advance("anonymize_pii", "create_department_table", anonymize_pii(hr, salt))

CreateDepartmentTableRaises ==
  /\ pc = "create_department_table"
  /\ create_department_table_raises(hr)
  /\ Raise("create_department_table")

CreateDepartmentTable ==
  /\ pc = "create_department_table"
  /\ ~create_department_table_raises(hr)
  /\ Advance("create_department_table", "create_demographics_table", create_department_table(hr))

CreateDemographicsTableRaises ==
  /\ pc = "create_demographics_table"
  /\ create_demographics_table_raises(hr)
  /\ Raise("create_demographics_table")

CreateDemographicsTable ==
  /\ pc = "create_demographics_table"
  /\ ~create_demographics_table_raises(hr)
  /\ Advance("create_demographics_table", "create_headcount_snapshot",
             create_demographics_table(hr))

CreateHeadcountSnapshot ==
  /\ pc = "create_headcount_snapshot"
  /\ \E noise \in RandintDraws :
       Advance("create_headcount_snapshot", "create_separations_table",
               create_headcount_snapshot(hr, noise))

CreateSeparationsTableRaises ==
  /\ pc = "create_separations_table"
  /\ create_separations_table_raises(hr)
  /\ Raise("create_separations_table")

CreateSeparationsTable ==
  /\ pc = "create_separations_table"
  /\ ~create_separations_table_raises(hr)
  /\ Advance("create_separations_table", "merge_tables", create_separations_table(hr))

MergeTables ==
  /\ pc = "merge_tables"
  /\ Advance("merge_tables", "return", merge_tables(hr))

\* prepare_complete_model returns; load_data_model builds the measures and
\* the cache keeps the pair; main stores it in the session.
Return ==
  /\ pc = "return"
  /\ cache' = [cache EXCEPT ![hr.data_path] = DataDict(hr)]
  /\ session' = [data_model |-> DataDict(hr), data_loaded |-> TRUE]
  /\ prepared' = DataDict(hr)
  /\ pc' = "idle"
  /\ outcome' = "ok"
  /\ UNCHANGED <<files, salt, hr, ran, loads, result, input>>

Next ==
  \/ \E p \in Paths : ClickLoad(p)
  \/ \E p \in Paths : ClickLoadCached(p)
  \/ LoadDataRaises
  \/ LoadData
  \/ CleanData
  \/ AnonymizePii
  \/ CreateDepartmentTableRaises
  \/ CreateDepartmentTable
  \/ CreateDemographicsTableRaises
  \/ CreateDemographicsTable
  \/ CreateHeadcountSnapshot
  \/ CreateSeparationsTableRaises
  \/ CreateSeparationsTable
  \/ MergeTables
  \/ Return

Spec == Init /\ [][Next]_vars

(***************************************************************************)
(* The metrics engine at work: a DAXMeasures object constructed on the     *)
(* data dict of a completed preparation, and the calls made on it.         *)
(***************************************************************************)
PeriodChoices == {6, DefaultPeriod}

\* datetime.now(), in days since 2024-01-01.
NowChoices == {100, 1033}

\* The metrics read neither the EmployeeID column nor the headcount table:
\* one hash seed and one draw stand for all.
InitMetrics ==
  \E f \in MetricsFiles, s \in {0}, noise \in {[m \in 1..SnapshotMonths |-> RandLow]} :
    LET fs == [p \in Paths |-> IF p = "hr.csv" THEN f ELSE None]
        d == prepare_complete_model("hr.csv", fs, s, noise)
    IN /\ d # None
       /\ files = fs
       /\ salt = s
       /\ cache = [p \in Paths |-> IF p = "hr.csv" THEN d ELSE None]
       /\ session = [data_model |-> d, data_loaded |-> TRUE]
       /\ hr = None
       /\ pc = "idle"
       /\ ran = Stages
       /\ loads = 1
       /\ outcome = "ok"
       /\ prepared = d
       /\ result = None
       /\ input = None

Call(op, filters, period_months, now, top_n, value, df_filtered, seps_filtered) ==
  [op |-> op, filters |-> filters, period_months |-> period_months, now |-> now,
   top_n |-> top_n, value |-> value, df_filtered |-> df_filtered,
   separations_filtered |-> seps_filtered, filters_after |-> filters]

CalculateHeadcount(filters) ==
  /\ session.data_loaded
  /\ result = None
  /\ result' = Call("calculate_headcount", filters, DefaultPeriod, 0, 0,
                    calculate_headcount(session.data_model, filters),
                    apply_filters(session.data_model.merged, filters).df, None)
  /\ UNCHANGED <<files, salt, cache, session, hr, pc, ran, loads, outcome, prepared, input>>

CalculateSeparations(filters, period_months, now) ==
  /\ session.data_loaded
  /\ result = None
  /\ result' = Call("calculate_separations", filters, period_months, now, 0,
                    calculate_separations(session.data_model, filters, period_months, now),
                    None,
                    separations_filtered(session.data_model, filters, period_months, now))
  /\ UNCHANGED <<files, salt, cache, session, hr, pc, ran, loads, outcome, prepared, input>>

CalculateAttritionRate(filters, period_months, now) ==
  /\ session.data_loaded
  /\ result = None
  /\ result' = Call("calculate_attrition_rate", filters, period_months, now, 0,
                    calculate_attrition_rate(session.data_model, filters, period_months, now),
                    apply_filters(session.data_model.merged, filters).df,
                    separations_filtered(session.data_model, filters, period_months, now))
  /\ UNCHANGED <<files, salt, cache, session, hr, pc, ran, loads, outcome, prepared, input>>

\* The call returns one of the frames r.frames and leaves r.merged as the
\* engine's table.
InfluencersReturned(filters, top_n, r) ==
  /\ \E frame \in r.frames :
       result' = Call("identify_key_influencers", filters, DefaultPeriod, 0, top_n,
                      frame, apply_filters(session.data_model.merged, filters).df, None)
  /\ session' = [session EXCEPT !.data_model.merged = r.merged]

IdentifyKeyInfluencers(filters, top_n) ==
  /\ session.data_loaded
  /\ result = None
  /\ InfluencersReturned(filters, top_n,
                         identify_key_influencers(session.data_model, filters, top_n))
  /\ UNCHANGED <<files, salt, cache, hr, pc, ran, loads, outcome, prepared, input>>

CalculateAttritionByDepartment(filters) ==
  /\ session.data_loaded
  /\ result = None
  /\ LET r == calculate_attrition_by_department(session.data_model, filters)
     IN result' = [Call("calculate_attrition_by_department", filters, DefaultPeriod, 0, 0,
                        r.results, apply_filters(session.data_model.merged, filters).df, None)
                   EXCEPT !.filters_after = r.filters]
  /\ UNCHANGED <<files, salt, cache, session, hr, pc, ran, loads, outcome, prepared, input>>

CalculateSeparationsByReason(filters) ==
  /\ session.data_loaded
  /\ result = None
  /\ result' = Call("calculate_separations_by_reason", filters, DefaultPeriod, 0, 0,
                    calculate_separations_by_reason(session.data_model, filters),
                    None,
                    separations_filtered(session.data_model, filters, DefaultPeriod, 0))
  /\ UNCHANGED <<files, salt, cache, session, hr, pc, ran, loads, outcome, prepared, input>>

\* The caller takes the value returned; the next call can be made.
Returned ==
  /\ result # None
  /\ result' = None
  /\ UNCHANGED <<files, salt, cache, session, hr, pc, ran, loads, outcome, prepared, input>>

\* The window only matters below the default period; the clock is read only then.
Windows ==
  {w \in [period_months : PeriodChoices, now : NowChoices \cup {0}] :
     (w.period_months < DefaultPeriod) <=> (w.now # 0)}

NextMetrics ==
  \/ \E F \in FilterArgs : CalculateHeadcount(F)
  \/ \E F \in FilterArgs, w \in Windows : CalculateSeparations(F, w.period_months, w.now)
  \/ \E F \in FilterArgs, w \in Windows : CalculateAttritionRate(F, w.period_months, w.now)
  \/ \E F \in FilterArgs, n \in 0..MaxTopN : IdentifyKeyInfluencers(F, n)
  \/ \E F \in FilterArgs : CalculateAttritionByDepartment(F)
  \/ \E F \in FilterArgs : CalculateSeparationsByReason(F)
  \/ Returned

SpecMetrics == InitMetrics /\ [][NextMetrics]_vars

(***************************************************************************)
(* _infer_separation_reason on its own: a departed employee's row and the  *)
(* incomes of the other employees of the data set.                         *)
(***************************************************************************)
ReasonRows ==
  [JobSatisfaction : 1..4, EnvironmentSatisfaction : 1..4, WorkLifeBalance : 1..4,
   MonthlyIncome : {2, 5}, OverTime : {"Yes", "No"}, YearsSinceLastPromotion : {5, 6}]

OtherIncomes == {<<3>>, <<5, 9>>, <<2>>}

InitReason ==
  /\ files = [p \in Paths |-> None]
  /\ salt = 0
  /\ cache = [p \in Paths |-> None]
  /\ session = [data_model |-> None, data_loaded |-> FALSE]
  /\ hr = None
  /\ pc = "idle"
  /\ ran = <<>>
  /\ loads = 0
  /\ outcome = "none"
  /\ prepared = None
  /\ result = None
  /\ \E row \in ReasonRows, others \in OtherIncomes :
       input = [row |-> row, incomes |-> <<row.MonthlyIncome>> \o others]

InferSeparationReason ==
  /\ input # None
  /\ result = None
  /\ result' = [op |-> "_infer_separation_reason",
                value |-> infer_separation_reason(input.row, TwiceMedian(input.incomes))]
  /\ UNCHANGED <<files, salt, cache, session, hr, pc, ran, loads, outcome, prepared, input>>

SpecReason == InitReason /\ [][InferSeparationReason]_vars

(***************************************************************************)
(* create_demographics_table on its own: an employee table of one row,     *)
(* with an Age column or without.                                          *)
(***************************************************************************)
AgeTables ==
  {Table({"EmployeeNumber", "Gender", "Age"},
         <<[EmployeeNumber |-> 1, Gender |-> "Male", Age |-> a]>>) : a \in 0..MaxAge}
  \cup {Table({"EmployeeNumber", "Gender"}, <<[EmployeeNumber |-> 1, Gender |-> "Male"]>>)}

InitAge ==
  /\ files = [p \in Paths |-> None]
  /\ salt = 0
  /\ cache = [p \in Paths |-> None]
  /\ session = [data_model |-> None, data_loaded |-> FALSE]
  /\ \E t \in AgeTables : hr = [HRDataModel("hr.csv") EXCEPT !.df_employee = t]
  /\ pc = "create_demographics_table"
  /\ ran = <<>>
  /\ loads = 0
  /\ outcome = "none"
  /\ prepared = None
  /\ result = None
  /\ input = None

CreateDemographicsAlone ==
  /\ pc = "create_demographics_table"
  /\ ~create_demographics_table_raises(hr)
  /\ hr' = create_demographics_table(hr)
  /\ pc' = "idle"
  /\ UNCHANGED <<files, salt, cache, session, ran, loads, outcome, prepared, result, input>>

SpecAge == InitAge /\ [][CreateDemographicsAlone]_vars

(***************************************************************************)
(* The claims.                                                             *)
(***************************************************************************)
\* What the specification calls a row matching a filter: the row has every
\* key of the mapping as a column and passes its equality or membership
\* test; no filter, and a key whose value is None, constrain nothing.
PassesKey(row, key, value) ==
  IF value = NoValue THEN TRUE
  ELSE IF key \notin DOMAIN row THEN FALSE
  ELSE IF value.kind = "in" THEN row[key] \in value.vs
  ELSE row[key] = value.v

MatchesFilter(row, filters) ==
  IF filters = None THEN TRUE
  ELSE \A key \in DOMAIN filters : PassesKey(row, key, filters[key])

\* F2 holds every constraint of F1 (and possibly more).
Restricts(F2, F1) ==
  IF F1 = None THEN TRUE
  ELSE IF F2 = None THEN DOMAIN F1 = {}
  ELSE /\ DOMAIN F1 \subseteq DOMAIN F2
       /\ \A key \in DOMAIN F1 : F1[key] = F2[key]

ActiveMatching(df, filters) ==
  {i \in 1..Len(df.rows) : df.rows[i]["Attrition"] = "No" /\ MatchesFilter(df.rows[i], filters)}

Called(op) == IF result = None THEN FALSE ELSE result.op = op

\* C1: calculate_headcount(filter) is the number of rows of the merged view
\* with Attrition = 'No' that match the filter, and a filter that holds every
\* constraint of another never gives a larger headcount than that other.
C1_HeadcountCountsActiveMatchingRows ==
  Called("calculate_headcount") =>
    /\ result.value = Cardinality(ActiveMatching(session.data_model.merged, result.filters))
    /\ \A F1 \in FilterArgs :
         Restricts(result.filters, F1) =>
           result.value <= calculate_headcount(session.data_model, F1)

\* A headcount under a filter of two keys that leaves some active rows in
\* and some out.
C1_Witness ==
  /\ Called("calculate_headcount")
  /\ result.filters # None
  /\ Cardinality(DOMAIN result.filters) = 2
  /\ result.value > 0
  /\ result.value < calculate_headcount(session.data_model, None)
  /\ \E k \in DOMAIN result.filters :
       result.value < calculate_headcount(session.data_model,
                                          [j \in {k} |-> result.filters[j]])

\* C2: calculate_attrition_rate is never negative, is 0 when the headcount
\* under the filter is 0 whatever the separations count, and otherwise is
\* 100 * separations / headcount rounded to two decimals (in hundredths: the
\* integer nearest to 10000 * separations / headcount).
C2_AttritionRateIsGuardedRoundedRatio ==
  Called("calculate_attrition_rate") =>
    LET headcount == calculate_headcount(session.data_model, result.filters)
        separations == calculate_separations(session.data_model, result.filters,
                                             result.period_months, result.now)
    IN /\ result.value >= 0
       /\ headcount = 0 => result.value = 0
       /\ headcount > 0 => 2 * Abs(result.value * headcount - 10000 * separations) <= headcount

\* An attrition rate of 0 returned for a filter with separations and no
\* headcount.
C2_Witness ==
  /\ Called("calculate_attrition_rate")
  /\ calculate_headcount(session.data_model, result.filters) = 0
  /\ calculate_separations(session.data_model, result.filters,
                           result.period_months, result.now) > 0
  /\ result.value = 0

\* C3: in one attrition-rate call every row of the filtered merged view and
\* every row of the filtered Separations Fact passes the test of every key of
\* the filter mapping.
C3_FilteredRowsPassEveryKey ==
  (Called("calculate_attrition_rate") /\ result # None /\ result.filters # None) =>
    /\ \A i \in 1..Len(result.df_filtered.rows) :
         MatchesFilter(result.df_filtered.rows[i], result.filters)
    /\ \A i \in 1..Len(result.separations_filtered.rows) :
         MatchesFilter(result.separations_filtered.rows[i], result.filters)

\* C4: whatever metrics calls were made, the data model has the tables, rows
\* and columns it had when preparation completed.
C4_TablesAsPrepared == session.data_loaded => session.data_model = prepared

\* The file the current (or last) load attempt read.
InputOf(h) == files[h.data_path]

Attempted == IF hr = None THEN FALSE ELSE pc = "idle" /\ outcome \in {"ok", "error"}

\* The row at which a department value is first met in the input.
FirstAt(col, v) == CHOOSE i \in 1..Len(col) : col[i] = v /\ \A j \in 1..(i - 1) : col[j] # v

\* One row per distinct department of the input, no name twice, ids 1..N in
\* the order the values are first met.
IsDepartmentDimensionOf(dim, file) ==
  LET col == Column(file, "Department")
      names == [i \in 1..Len(dim.rows) |-> dim.rows[i]["DepartmentName"]]
  IN /\ Range(names) = Range(col)
     /\ Len(names) = Cardinality(Range(col))
     /\ \A i \in 1..Len(names) : dim.rows[i]["DepartmentID"] = i
     /\ \A i, j \in 1..Len(names) : i < j => FirstAt(col, names[i]) < FirstAt(col, names[j])

\* C5: for every non-empty input (with a Department column), once
\* prepare_complete_model has run, the Department Dimension holds one row per
\* distinct department of the input, ids 1..N in first-met order, also when
\* all employees share one department.
C5_DepartmentDimensionOfEveryInput ==
  (Attempted /\ hr # None /\ InputOf(hr) # None /\ InputOf(hr).rows # <<>>) =>
    /\ hr.df_department # None
    /\ IsDepartmentDimensionOf(hr.df_department, InputOf(hr))

ReasonLabels ==
  {"Low Job Satisfaction", "Poor Work Environment", "Work-Life Balance", "Compensation",
   "Overtime Concerns", "Limited Growth", "Other"}

\* x is below the median of the incomes (x among them): at most half of them
\* are x or less.
BelowMedian(x, incomes) ==
  2 * Cardinality({i \in 1..Len(incomes) : incomes[i] <= x}) <= Len(incomes)

\* The label of the first predicate of the priority order that holds.
FirstReason(row, incomes) ==
  IF row.JobSatisfaction <= 2 THEN "Low Job Satisfaction"
  ELSE IF row.EnvironmentSatisfaction <= 2 THEN "Poor Work Environment"
  ELSE IF row.WorkLifeBalance <= 2 THEN "Work-Life Balance"
  ELSE IF BelowMedian(row.MonthlyIncome, incomes) THEN "Compensation"
  ELSE IF row.OverTime = "Yes" THEN "Overtime Concerns"
  ELSE IF row.YearsSinceLastPromotion > 5 THEN "Limited Growth"
  ELSE "Other"

\* C6: _infer_separation_reason returns one of the seven labels, the label of
\* the first predicate that holds in the priority order, 'Other' only when none
\* holds.
C6_ReasonIsFirstMatchingLabel ==
  Called("_infer_separation_reason") =>
    /\ result.value \in ReasonLabels
    /\ result.value = FirstReason(input.row, input.incomes)

\* A row with low job satisfaction and overtime is labelled Low Job
\* Satisfaction.
C6_Witness ==
  /\ Called("_infer_separation_reason")
  /\ input.row.JobSatisfaction <= 2
  /\ input.row.OverTime = "Yes"
  /\ result.value = "Low Job Satisfaction"

\* The band the claim gives an age in 1..100.
BandOf(a) ==
  IF a <= 25 THEN "18-25"
  ELSE IF a <= 35 THEN "26-35"
  ELSE IF a <= 45 THEN "36-45"
  ELSE IF a <= 55 THEN "46-55"
  ELSE "55+"

DemographicsBuilt == IF hr = None THEN FALSE ELSE hr.df_demographics # None

\* C7: every age a with 0 < a <= 100 gets the one band of its
\* exclusive-low / inclusive-high bin (25 -> 18-25, 26 -> 26-35, 35 -> 26-35,
\* 45 -> 36-45, 55 -> 46-55, 56 -> 55+), and without an Age column there is
\* no AgeGroup column.
C7_AgeBands ==
  DemographicsBuilt =>
    LET demo == hr.df_demographics
    IN /\ "AgeGroup" \in demo.cols <=> "Age" \in hr.df_employee.cols
       /\ "Age" \in hr.df_employee.cols =>
            \A i \in 1..Len(demo.rows) :
              LET a == demo.rows[i]["Age"]
              IN (0 < a /\ a <= 100) =>
                   /\ demo.rows[i]["AgeGroup"] \in Range(AgeLabels)
                   /\ demo.rows[i]["AgeGroup"] = BandOf(a)

\* The demographics of an employee aged 56: the band 55+.
C7_Witness ==
  /\ DemographicsBuilt
  /\ "Age" \in hr.df_demographics.cols
  /\ hr.df_demographics.rows[1]["Age"] = 56
  /\ hr.df_demographics.rows[1]["AgeGroup"] = "55+"

\* The correlation of a column with the departed/active indicator is
\* undefined over a view: the column or the indicator does not vary in it.
Undefined(view, col) ==
  \/ Cardinality({view.rows[i][col] : i \in 1..Len(view.rows)}) <= 1
  \/ Cardinality({view.rows[i]["Attrition"] = "Yes" : i \in 1..Len(view.rows)}) <= 1

PlaceOf(col) == CHOOSE i \in 1..Len(InfluencerCols) : InfluencerCols[i] = col

\* C8: identify_key_influencers returns at most top_n rows, by descending
\* Impact, each Factor once, every Factor a listed numeric attribute the view
\* has, none with an undefined correlation.
C8_KeyInfluencersRanked ==
  Called("identify_key_influencers") =>
    LET frame == result.value
        view == result.df_filtered
    IN /\ Len(frame) <= result.top_n
       /\ \A i, j \in 1..Len(frame) : i < j => frame[i].Impact >= frame[j].Impact
       /\ \A i, j \in 1..Len(frame) : i # j => frame[i].Factor # frame[j].Factor
       /\ \A i \in 1..Len(frame) :
            /\ frame[i].Factor \in Range(InfluencerCols) \cap view.cols
            /\ ~Undefined(view, frame[i].Factor)

\* Two influencers returned, the stronger first although the list names it
\* later.
C8_Witness ==
  /\ Called("identify_key_influencers")
  /\ Len(result.value) = 2
  /\ result.top_n = 2
  /\ result.value[1].Impact > result.value[2].Impact
  /\ PlaceOf(result.value[1].Factor) > PlaceOf(result.value[2].Factor)

IsPrefix(s, t) == Len(s) <= Len(t) /\ s = SubSeq(t, 1, Len(s))

\* C9: the stages run in the fixed order, and after a load attempt in which a
\* stage failed no data model was returned and the session's data model is
\* unset and not ready, whatever load attempts came before.
C9_FailedLoadLeavesModelUnset ==
  /\ IsPrefix(ran, Stages)
  /\ (pc = "idle" /\ outcome = "error") =>
       /\ cache[hr.data_path] = None
       /\ ~session.data_loaded
       /\ session.data_model = None

CountAttrition(file, flag) ==
  Cardinality({i \in 1..Len(file.rows) : file.rows[i]["Attrition"] = flag})

\* C10: after the full pipeline on an input with d departed and a active
\* employees the Separations Fact has one row per departed employee, and with
\* no filter and the default window the headcount is a, the separations are d
\* and the attrition rate is 100 * d / a rounded to two decimals.
C10_EndToEndCounts ==
  LET file == files["hr.csv"]
      d == CountAttrition(file, "Yes")
      a == CountAttrition(file, "No")
      seps == prepared.separations
      NoFilterCall(op) ==
        IF Called(op) THEN result.filters = None /\ result.period_months = DefaultPeriod
        ELSE FALSE
  IN /\ Len(seps.rows) = d
     /\ {seps.rows[i]["EmployeeNumber"] : i \in 1..Len(seps.rows)}
          = {file.rows[i]["EmployeeNumber"] :
               i \in {j \in 1..Len(file.rows) : file.rows[j]["Attrition"] = "Yes"}}
     /\ NoFilterCall("calculate_headcount") => result.value = a
     /\ NoFilterCall("calculate_separations") => result.value = d
     /\ NoFilterCall("calculate_attrition_rate") =>
          /\ a > 0
          /\ 2 * Abs(result.value * a - 10000 * d) <= a

\* Ten employees, three departed and seven active: the attrition rate with no
\* filter is 42.86.
C10_Witness ==
  /\ Len(files["hr.csv"].rows) = 10
  /\ CountAttrition(files["hr.csv"], "Yes") = 3
  /\ CountAttrition(files["hr.csv"], "No") = 7
  /\ Len(prepared.separations.rows) = 3
  /\ Called("calculate_attrition_rate")
  /\ result.filters = None
  /\ result.period_months = DefaultPeriod
  /\ result.value = 4286

\* The tables of the data dict that hold one row per employee or departure.
EmployeeTables == {"employee", "demographics", "separations", "merged"}

\* C11: after anonymize_pii and the rest of the pipeline the pseudonymous id
\* (in 0..99999) has replaced the raw identifier: no table of the data dict
\* produced still carries the raw EmployeeNumber column.
C11_RawIdentifierReplaced ==
  prepared # None =>
    /\ "EmployeeID" \in prepared.employee.cols
    /\ \A i \in 1..Len(prepared.employee.rows) :
         prepared.employee.rows[i]["EmployeeID"] \in 0..(HashBuckets - 1)
    /\ \A t \in EmployeeTables : "EmployeeNumber" \notin prepared[t].cols

\* The tables of a data dict that a second run on the same input reproduces.
SameDimensions(d1, d2) ==
  /\ d1.department = d2.department
  /\ d1.demographics = d2.demographics
  /\ d1.separations = d2.separations

\* C12: a second run of the pipeline on the input of a completed run, under
\* any hash seed and any noise, completes and yields the same Department and
\* Demographics dimensions and the same Separations Fact; under the seed of
\* the same process the noise changes nothing in the employee table and the
\* merged view either, only the Headcount Snapshot.
C12_RerunYieldsSameDimensions ==
  \A p \in Paths :
    cache[p] # None =>
      /\ \A s \in Salts, noise \in RandintDraws :
           LET again == prepare_complete_model(p, files, s, noise)
           IN IF again = None THEN FALSE
              ELSE /\ SameDimensions(again, cache[p])
                   /\ s = salt => /\ again.merged = cache[p].merged
                                  /\ again.employee = cache[p].employee
      /\ \A q \in Paths :
           IF cache[q] # None /\ files[q] = files[p]
           THEN /\ SameDimensions(cache[q], cache[p])
                /\ cache[q].merged = cache[p].merged
                /\ cache[q].employee = cache[p].employee
           ELSE TRUE

\* Two completed runs of one session on files of the same content, whose
\* Headcount Snapshots differ.
C12_Witness ==
  /\ cache["hr.csv"] # None
  /\ cache["other.csv"] # None
  /\ files["hr.csv"] = files["other.csv"]
  /\ cache["hr.csv"].headcount # cache["other.csv"].headcount
  /\ cache["hr.csv"].department = cache["other.csv"].department
  /\ Len(cache["hr.csv"].department.rows) = 2

\* F merged with {Department: d}: the department entry replaces any entry F
\* has for Department.
MergedWithDepartment(F, d) ==
  IF F = None THEN ("Department" :> Eq(d)) ELSE ("Department" :> Eq(d)) @@ F

\* C13: calculate_attrition_by_department(F) returns a mapping whose keys are
\* the distinct departments of the rows of the merged view that match F, whose
\* value for a department d is calculate_attrition_rate(F merged with
\* {Department: d}), and F is as it was after the call.
C13_AttritionByDepartment ==
  Called("calculate_attrition_by_department") =>
    LET merged == session.data_model.merged
        F == result.filters
    IN /\ DOMAIN result.value =
            {merged.rows[i]["Department"] :
               i \in {j \in 1..Len(merged.rows) : MatchesFilter(merged.rows[j], F)}}
       /\ \A d \in DOMAIN result.value :
            result.value[d] =
              calculate_attrition_rate(session.data_model, MergedWithDepartment(F, d),
                                       DefaultPeriod, 0)
       /\ result.filters_after = F

\* A call whose filter has a Department entry of its own and a second key,
\* returning two departments with different rates.
C13_Witness ==
  /\ Called("calculate_attrition_by_department")
  /\ result.filters # None
  /\ DOMAIN result.filters = {"Department", "Gender"}
  /\ Cardinality(DOMAIN result.value) = 2
  /\ \E d, e \in DOMAIN result.value : result.value[d] > result.value[e] /\ result.value[e] > 0

RECURSIVE SumValues(_, _)
\* The sum of the values a mapping has at the given keys.
SumValues(f, keys) ==
  IF keys = {} THEN 0
  ELSE LET k == CHOOSE x \in keys : TRUE
       IN f[k] + SumValues(f, keys \ {k})

\* C14: the counts of calculate_separations_by_reason(F) sum to
\* calculate_separations(F) at the default window; every key is one of the
\* seven labels, and every separation that calculate_separations(F) counts is
\* counted under the one label it carries.
C14_ReasonCountsSumToSeparations ==
  Called("calculate_separations_by_reason") =>
    LET counts == result.value
        F == result.filters
        counted == separations_filtered(session.data_model, F, DefaultPeriod, 0).rows
    IN /\ SumValues(counts, DOMAIN counts)
            = calculate_separations(session.data_model, F, DefaultPeriod, 0)
       /\ DOMAIN counts \subseteq ReasonLabels
       /\ \A l \in DOMAIN counts :
            counts[l] = Cardinality({i \in 1..Len(counted) : counted[i]["SeparationReason"] = l})
       /\ \A i \in 1..Len(counted) : counted[i]["SeparationReason"] \in DOMAIN counts

\* A call under a department filter that leaves some separations out and
\* returns a label counted twice.
C14_Witness ==
  /\ Called("calculate_separations_by_reason")
  /\ result.filters # None
  /\ "Department" \in DOMAIN result.filters
  /\ \E l \in DOMAIN result.value : result.value[l] >= 2
  /\ SumValues(result.value, DOMAIN result.value) < Len(session.data_model.separations.rows)
====
